---- MODULE Spec2Model ----
(***************************************************************************)
(* Run execution orchestrator of agent_server/api/runs.py: the request     *)
(* handlers (create_run, create_and_stream_run, update_run, join_run,      *)
(* cancel_run_endpoint, delete_run), the background executor               *)
(* execute_run_async, the task registry active_runs, and the persisted     *)
(* Run / Thread rows they write.  Every handler is cut at the awaits where *)
(* another task of the event loop can run.                                 *)
(***************************************************************************)
EXTENDS Naturals, Sequences, FiniteSets

\* ---------------------------------------------------------------- bounds
MaxRuns == 1        \* create requests issued (one fresh uuid4 run_id each)
MaxReqs == 2        \* cancel / update / join / delete requests issued
MaxEvents == 1      \* raw events the engine produces for one run
MaxPairRuns == 2    \* create requests of the scenario with concurrent runs
MaxPairEvents == 1  \* raw events per run in that scenario
MaxLoopEvents == 3  \* raw events of the one run of the event-loop scenario
MaxStreamEvents == 1 \* raw events of the one run of the streaming scenario
MaxStreamReqs == 1  \* stream_run requests of that scenario
MaxForeignReqs == 1 \* requests of the scenario with foreign callers
MaxSettleReqs == 1  \* requests of the scenario with a fair event loop
MaxShutdownReqs == 1  \* requests of the scenario that ends in a shutdown
MaxModes == 2       \* longest stream_mode list of the request-fields scenario

RunIds == 1..(IF MaxRuns > MaxPairRuns THEN MaxRuns ELSE MaxPairRuns)
ReqIds == 1..MaxReqs
Threads == {"t1", "t2"}

\* One streaming response per stream_run request and per create_and_stream_run.
ReqSub(q) == q
CreateSub(c) == MaxReqs + c
SubIds == 1..(MaxReqs + (IF MaxRuns > MaxPairRuns THEN MaxRuns ELSE MaxPairRuns))

\* ---------------------------------------------------------------- state
VARIABLES
    thread_status,   \* ThreadORM.status per thread
    thread_meta,     \* ThreadORM.metadata_json: "none" or the assistant/graph written
    run_rows,        \* RunORM row per run_id
    active_runs,     \* keys of the dict active_runs (the value is the run's task)
    task,            \* the asyncio.Task running execute_run_async(run_id, ...)
    broker,          \* streaming_service broker / event store state per run
    creates,         \* create_run / create_and_stream_run handler per request
    reqs,            \* cancel / update / join / delete handler per request
    obs,             \* history: what has happened to each run so far
    lim,             \* the bounds of the scenario being explored (constant)
    subs,            \* stream_run_execution generator per streaming response
    app              \* the application's lifespan, and main.py's own active_runs

vars == <<thread_status, thread_meta, run_rows, active_runs, task, broker,
          creates, reqs, obs, lim, subs, app>>

\* run_orm.status in ["pending", "running", "streaming"]
ActiveStatuses == {"pending", "running", "streaming"}

\* Output values: None, {}, the payload of the engine's n-th raw event, and
\* "argument not passed" (update_run_status's output=None default).
Null == [k |-> "null", n |-> 0]
Empty == [k |-> "empty", n |-> 0]
Val(n) == [k |-> "val", n |-> n]
NotGiven == [k |-> "notgiven", n |-> 0]
\* A payload holding a value that cannot be serialized, and the payload
\* {"error": "Output serialization failed", "original_type": ...}.
Opaque(n) == [k |-> "opaque", n |-> n]
Diagnostic == [k |-> "diagnostic", n |-> 0]

NoRow == [present |-> "no", thread |-> "t1", status |-> "none",
          output |-> Null, error |-> "null"]

\* (raw_n and nostream_n count the events the engine has produced so far and
\* those of them that carried the tag langsmith:nostream; last_whole is the
\* payload of the last whole-state event among those not dropped.)
\* A stream_mode value: None, a single name, or a list of names.
NoMode == [k |-> "none", v |-> <<>>]
StrMode(m) == [k |-> "str", v |-> <<m>>]
ListMode(l) == [k |-> "list", v |-> l]

NoTask == [pc |-> "none", must_cancel |-> FALSE, result |-> "none",
           raw_n |-> 0, nostream_n |-> 0, event_counter |-> 0,
           final_output |-> Null, has_interrupt |-> FALSE,
           execution_input |-> "unset", final_stream_modes |-> <<>>,
           only_interrupt_updates |-> FALSE, last_whole |-> Null]

NoBroker == [pushed |-> <<>>, stored |-> <<>>, terminal |-> "none",
             released |-> FALSE, interrupt_requested |-> FALSE]

NoCreate == [pc |-> "new", thread |-> "t1", command |-> "none",
             via |-> "create_run", resp |-> "none",
             input |-> "x1", stream_mode |-> NoMode]

\* The user every run is created by, and the users requests come from.
Owner == "u1"
Users == {"u1", "u2"}

\* (caller: the request's user.identity and the thread_id of its path.)
NoReq == [pc |-> "new", kind |-> "none", run |-> 1, arg |-> "none",
          wait |-> FALSE, resp |-> "none",
          caller |-> [user |-> Owner, thread_id |-> "t1"]]

\* A handled request: only its response code is kept.
Answer(code) == [NoReq EXCEPT !.pc = "done", !.resp = code]

\* ... with the run it named and who made it.
Reply(code, r, who) == [Answer(code) EXCEPT !.run = r, !.caller = who]

\* marker_seen: an event that was not skipped carried "__interrupt__";
\* touched: a cancel / interrupt / delete request was made for the run;
\* cancel_at: where the first CancelledError reached the task;
\* fail_in_try: an await of the try block raised;
\* cut: an except block was left early, by a further "cancel" or by a "fault";
\* cancels: cancel requests for the run that have returned its Run;
\* interrupt_live: an interrupt request was made while the task was registered.
NoObs == [marker_seen |-> FALSE, touched |-> FALSE, cancel_at |-> "none",
          fail_in_try |-> FALSE, cut |-> "none", cancels |-> 0,
          interrupt_live |-> FALSE]

\* A streaming response: the run it follows, the Last-Event-ID it was opened
\* with (0: none), whether a disconnect cancels the run, the event counters
\* sent so far and the position in the broker's sequence it has consumed.
NoSub == [pc |-> "none", run |-> 1, on_disconnect |-> "absent",
          cancel_on_disconnect |-> FALSE, last_event_id |-> 0,
          got |-> <<>>, cursor |-> 0]

\* The lifespan is past its yield (serving); active_runs is the dict defined in
\* main.py, which no code writes to: run tasks are registered in the dict of
\* the same name in api/runs.py.  undone and cancelled are history: the tasks
\* not done when the shutdown began, and those the shutdown loop cancelled.
NoApp == [pc |-> "serving", active_runs |-> {}, undone |-> {}, cancelled |-> {}]

Start(limits) ==
    /\ lim = limits
    /\ thread_status \in {[t \in Threads |-> IF t = "t1" THEN s1 ELSE "idle"] :
                            s1 \in {"idle", "interrupted"}}
    /\ thread_meta = [t \in Threads |-> "none"]
    /\ run_rows = [r \in RunIds |-> NoRow]
    /\ active_runs = {}
    /\ task = [r \in RunIds |-> NoTask]
    /\ broker = [r \in RunIds |-> NoBroker]
    /\ creates = [r \in RunIds |-> NoCreate]
    /\ reqs = [q \in ReqIds |-> NoReq]
    /\ obs = [r \in RunIds |-> NoObs]
    /\ subs = [s \in SubIds |-> NoSub]
    /\ app = NoApp

\* ---------------------------------------------------------------- helpers
Last(s) == s[Len(s)]

RowExists(r) == run_rows[r].present = "yes"

\* serializer.serialize(output) raises for a value that is not serializable;
\* a JSON payload comes back as it is.
Serializable(output) == output.k # "opaque"

\* Variant: a serialization failure leaves the function before the UPDATE.
UpdateUnlessUnserializable(rows, r, status, output, error) ==
    IF rows[r].present # "yes" \/ ~Serializable(output) THEN rows
    ELSE [rows EXCEPT ![r].status = status,
                      ![r].output = IF output # NotGiven THEN output ELSE @,
                      ![r].error = IF error # "none" THEN error ELSE @]

\* UPDATE run SET status, [output], [error_message] WHERE run_id = r: no row, no effect.
update_run_status(rows, r, status, output, error) ==
    IF rows[r].present # "yes" THEN rows
    ELSE [rows EXCEPT ![r].status = status,
                      ![r].output = IF output = NotGiven THEN @
                                    ELSE IF Serializable(output) THEN output
                                    ELSE Diagnostic,
                      ![r].error = IF error # "none" THEN error ELSE @]

\* UPDATE thread SET status WHERE thread_id = t.
set_thread_status(ts, t, status) == [ts EXCEPT ![t] = status]

TaskDone(r) == task[r].pc = "done"

\* Task.cancel(): a request, delivered when the task next resumes; no effect
\* on a task that is done.
TaskCancel(tk, r) ==
    IF tk[r].pc \in {"none", "done"} THEN tk ELSE [tk EXCEPT ![r].must_cancel = TRUE]

\* ------------------------------------------------- create_run / create_and_stream_run
Commands == {"none", "resume", "goto"}   \* no command; a command with a resume
                                         \* value; a command with goto/update only

\* Variant: the validation looks at the wrong key of the command.
HasResumeWrongKey(command) == command = "goto"

\* request.command and request.command.get("resume") is not None
HasResume(command) == command = "resume"

\* The thread a create request names.  Threads are interchangeable, so the
\* first request is taken to name t1.
CreateThreads(c) == IF c = 1 THEN {"t1"} ELSE Threads

\* Names a request's stream_mode can hold ("messages-tuple" is the alias).
ModeNames == {"values", "updates", "messages", "messages-tuple"}

RECURSIVE ModeLists(_)
ModeLists(n) ==
    IF n = 0 THEN {<<>>}
    ELSE ModeLists(n - 1) \cup {Append(l, m) : l \in ModeLists(n - 1), m \in ModeNames}

\* request.stream_mode: absent, a single name, a list of at most n names.  With
\* n = 0 the request's optional fields are left at one value each.
StreamModeInputs(n) ==
    IF n = 0 THEN {NoMode}
    ELSE {NoMode} \cup {StrMode(m) : m \in ModeNames} \cup {ListMode(l) : l \in ModeLists(n)}

\* request.input: absent, or a payload.
RequestInputs(n) == IF n = 0 THEN {"x1"} ELSE {"absent", "x1"}

\* The request arrives; the resume validation and the assistant / graph lookup.
CreateValidate(c) ==
    /\ creates[c].pc = "new"
    /\ IF c = 1 THEN TRUE ELSE creates[c - 1].pc # "new"
    /\ c <= lim.runs
    /\ \E t \in CreateThreads(c), cmd \in Commands, via \in {"create_run", "stream"},
          found \in BOOLEAN, input \in RequestInputs(lim.modes),
          stream_mode \in StreamModeInputs(lim.modes) :
         creates' = [creates EXCEPT ![c] =
            [pc |-> IF (HasResume(cmd) /\ thread_status[t] # "interrupted") \/ ~found
                    THEN "done" ELSE "mark",
             thread |-> t, command |-> cmd, via |-> via,
             resp |-> IF HasResume(cmd) /\ thread_status[t] # "interrupted" THEN "400"
                      ELSE IF ~found THEN "404" ELSE "none",
             input |-> input, stream_mode |-> stream_mode]]
    /\ UNCHANGED <<thread_status, thread_meta, run_rows, active_runs, task, broker,
                   reqs, obs, lim, subs, app>>

\* set_thread_status(busy) and update_thread_metadata.
CreateMarkThread(c) ==
    /\ creates[c].pc = "mark"
    /\ thread_status' = set_thread_status(thread_status, creates[c].thread, "busy")
    /\ thread_meta' = [thread_meta EXCEPT ![creates[c].thread] = "a1"]
    /\ creates' = [creates EXCEPT ![c].pc = "insert"]
    /\ UNCHANGED <<run_rows, active_runs, task, broker, reqs, obs, lim, subs, app>>

InitialStatus(via) == IF via = "stream" THEN "streaming" ELSE "pending"

\* Variant: the handler goes on to start the task without having committed
\* the run row.
CreateStartUnpersisted(c) ==
    /\ creates[c].pc = "insert"
    /\ creates' = [creates EXCEPT ![c].pc = "spawn"]
    /\ UNCHANGED <<thread_status, thread_meta, run_rows, active_runs, task, broker,
                   reqs, obs, lim, subs, app>>

\* session.add(run_orm); commit.
CreateInsert(c) ==
    /\ creates[c].pc = "insert"
    /\ run_rows' = [run_rows EXCEPT ![c] =
          [present |-> "yes", thread |-> creates[c].thread,
           status |-> InitialStatus(creates[c].via),
           output |-> Null, error |-> "null"]]
    /\ creates' = [creates EXCEPT ![c].pc = "spawn"]
    /\ UNCHANGED <<thread_status, thread_meta, active_runs, task, broker, reqs, obs, lim, subs, app>>

\* Variant: the run_id is not fresh; every create starts its task under run_id 1.
CreateSpawnSameId(c) ==
    /\ creates[c].pc = "spawn"
    /\ task' = [task EXCEPT ![1] = [NoTask EXCEPT !.pc = "s_running"]]
    /\ active_runs' = active_runs \cup {1}
    /\ creates' = [creates EXCEPT ![c].pc = "done", ![c].resp = "200"]
    /\ UNCHANGED <<thread_status, thread_meta, run_rows, broker, reqs, obs, lim, subs, app>>

\* asyncio.create_task(execute_run_async(...)); active_runs[run_id] = task; return.
\* The task's first step runs before any other handler resumes, up to its
\* first await inside the try block.
CreateSpawn(c) ==
    /\ creates[c].pc = "spawn"
    /\ task' = [task EXCEPT ![c] = [NoTask EXCEPT !.pc = "s_running"]]
    /\ active_runs' = active_runs \cup {c}
    /\ creates' = [creates EXCEPT ![c].pc = "done", ![c].resp = "200"]
    /\ UNCHANGED <<thread_status, thread_meta, run_rows, broker, reqs, obs, lim, subs, app>>

\* ------------------------------------------------- the engine's raw events
\* An element of a raw event: a mode name, a namespace tuple, a dict payload
\* (with or without the key "__interrupt__"), or the messages payload, a
\* (chunk, metadata) tuple whose metadata may hold the tag langsmith:nostream.
StrItem(m) == [t |-> "str", v |-> m, interrupt |-> FALSE, nostream |-> FALSE, val |-> 0]
NsItem == [t |-> "tuple0", v |-> "", interrupt |-> FALSE, nostream |-> FALSE, val |-> 0]
DictItem(i, n) == [t |-> "dict", v |-> "", interrupt |-> i, nostream |-> FALSE, val |-> n]
MsgItem(ns, n) == [t |-> "tuple2", v |-> "", interrupt |-> FALSE, nostream |-> ns, val |-> n]

Payloads(n) == {DictItem(i, n) : i \in BOOLEAN}
Tagged(n) == {<<StrItem(m), p>> : m \in {"values", "updates"}, p \in Payloads(n)}
                \cup {<<StrItem("messages"), MsgItem(ns, n)>> : ns \in BOOLEAN}

\* Raw events graph.astream can yield as its n-th: a bare payload, a
\* (mode, payload) pair, a (namespace, mode, payload) triple.
EngineEvents(n) ==
    {[is_tuple |-> FALSE, elems |-> <<p>>] : p \in Payloads(n)}
      \cup {[is_tuple |-> TRUE, elems |-> e] : e \in Tagged(n)}
      \cup {[is_tuple |-> TRUE, elems |-> <<NsItem>> \o e] : e \in Tagged(n)}

\* Whole-state events whose payload holds a value that cannot be serialized.
ObjItem(i, n) == [t |-> "dict", v |-> "opaque", interrupt |-> i, nostream |-> FALSE,
                  val |-> n]

OpaqueEvents(n) ==
    {[is_tuple |-> FALSE, elems |-> <<ObjItem(i, n)>>] : i \in BOOLEAN}
      \cup {[is_tuple |-> TRUE, elems |-> <<StrItem("values"), ObjItem(i, n)>>] :
               i \in BOOLEAN}

\* The events explored as the engine's n-th.
Produced(n) == EngineEvents(n) \cup (IF lim.opaque THEN OpaqueEvents(n) ELSE {})

\* The event's last element is a metadata pair tagged langsmith:nostream.
IsTagged(raw_event) ==
    IF Last(raw_event.elems).t = "tuple2" /\ Last(raw_event.elems).nostream THEN 1 ELSE 0

\* Variant: the metadata pair is looked for in second position only.
SkipChecksSecond(raw_event) ==
    /\ raw_event.is_tuple
    /\ Len(raw_event.elems) >= 2
    /\ raw_event.elems[2].t = "tuple2"
    /\ raw_event.elems[2].nostream

_should_skip_event(raw_event) ==
    /\ raw_event.is_tuple
    /\ Len(raw_event.elems) >= 2
    /\ Last(raw_event.elems).t = "tuple2"
    /\ Last(raw_event.elems).nostream

\* The payload of the event, whatever its shape (its last element).
PayloadOf(raw_event) == Last(raw_event.elems)

\* "Check for interrupt in this event"
EventData(raw_event) ==
    IF raw_event.is_tuple /\ Len(raw_event.elems) >= 2 THEN raw_event.elems[2]
    ELSE IF ~raw_event.is_tuple THEN raw_event.elems[1]
    ELSE NsItem

DetectsInterrupt(raw_event) ==
    EventData(raw_event).t = "dict" /\ EventData(raw_event).interrupt

\* A whole-state event: a bare payload, or a pair tagged "values".
IsWholeState(raw_event) ==
    \/ ~raw_event.is_tuple
    \/ Len(raw_event.elems) = 2 /\ raw_event.elems[1] = StrItem("values")

\* Variant: the payload of every tagged event is taken as the output.
TracksEveryMode(raw_event) ==
    IF raw_event.is_tuple
    THEN Len(raw_event.elems) >= 2 /\ raw_event.elems[1].t = "str"
    ELSE TRUE

\* "Track final output"
TracksOutput(raw_event) ==
    IF raw_event.is_tuple
    THEN /\ Len(raw_event.elems) >= 2
         /\ raw_event.elems[1].t = "str"
         /\ raw_event.elems[1].v = "values"
    ELSE TRUE

PayloadValue(item) == IF item.v = "opaque" THEN Opaque(item.val) ELSE Val(item.val)

TrackedOutput(raw_event) ==
    PayloadValue(IF raw_event.is_tuple THEN raw_event.elems[2] ELSE raw_event.elems[1])

\* ------------------------------------------------- execute_run_async
\* Where the task is suspended.  s_*: awaits inside the try block; c_*: inside
\* "except asyncio.CancelledError"; e_*: inside "except Exception".
TryPcs == {"s_running", "s_astream", "s_store", "s_final_status",
           "s_final_thread", "s_exit"}
CancelPcs == {"c_status", "c_thread", "c_signal"}
ErrorPcs == {"e_status", "e_thread", "e_signal"}

ThreadOf(r) == creates[r].thread

\* final_output or {}
OrEmpty(o) == IF o = Null THEN Empty ELSE o

\* streaming_service.signal_run_cancelled(run_id) / signal_run_error(run_id, msg)
signal_run_cancelled(b, r) == [b EXCEPT ![r].terminal = "cancelled"]
signal_run_error(b, r) == [b EXCEPT ![r].terminal = "error"]

\* streaming_service.cleanup_run(run_id): the run's broker is released.
cleanup_run(b, r) == [b EXCEPT ![r].released = TRUE]

\* Variant: the exit path releases the broker but leaves the registry entry.
FinallyKeepsEntry(r, result, b) ==
    /\ broker' = cleanup_run(b, r)
    /\ active_runs' = active_runs
    /\ task' = [task EXCEPT ![r] = [NoTask EXCEPT !.pc = "done", !.result = result]]

\* finally: streaming_service.cleanup_run(run_id); active_runs.pop(run_id, None).
\* The task is then done, with the given result; b is the broker state the
\* exit path leaves.
Finally(r, result, b) ==
    /\ broker' = cleanup_run(b, r)
    /\ active_runs' = active_runs \ {r}
    /\ task' = [task EXCEPT ![r] = [NoTask EXCEPT !.pc = "done", !.result = result]]

Steps(r, pc) == task[r].pc = pc /\ ~task[r].must_cancel

\* DEFAULT_STREAM_MODES
DEFAULT_STREAM_MODES == <<"values">>

Range(l) == {l[i] : i \in 1..Len(l)}

\* _normalize_mode: "messages-tuple" is an alias of "messages".
_normalize_mode(mode) == IF mode = "messages-tuple" THEN "messages" ELSE mode

\* The normalized request: None -> the default, a name -> [name], a list -> a copy.
RequestedModes(stream_mode) ==
    IF stream_mode.k = "none" THEN DEFAULT_STREAM_MODES
    ELSE [i \in 1..Len(stream_mode.v) |-> _normalize_mode(stream_mode.v[i])]

\* user_requested_updates = "updates" in final_stream_modes
user_requested_updates(stream_mode) == "updates" \in Range(RequestedModes(stream_mode))

\* "Ensure interrupt events are captured by including updates mode"
final_stream_modes(stream_mode) ==
    IF user_requested_updates(stream_mode) THEN RequestedModes(stream_mode)
    ELSE Append(RequestedModes(stream_mode), "updates")

\* map_command_to_langgraph(command): Command(update, goto, resume)
map_command_to_langgraph(command) ==
    [kind |-> "command", resume |-> command = "resume", goto |-> command = "goto",
     input |-> "unused"]

\* request.input or {}
InputData(input) == IF input = "absent" THEN "empty" ELSE input

\* Variant: the input is handed over next to the command.
ExecutionInputMerged(command, input_data) ==
    IF command # "none"
    THEN [map_command_to_langgraph(command) EXCEPT !.input = input_data]
    ELSE [kind |-> "input", resume |-> FALSE, goto |-> FALSE, input |-> input_data]

\* "Determine input for execution (either input_data or command)"
ExecutionInput(command, input_data) ==
    IF command # "none" THEN map_command_to_langgraph(command)
    ELSE [kind |-> "input", resume |-> FALSE, goto |-> FALSE, input |-> input_data]

\* update_run_status(run_id, "running"); then get_graph, run_config,
\* execution_input and the stream modes, up to the first astream step.
ExecRunning(r) ==
    /\ Steps(r, "s_running")
    /\ run_rows' = update_run_status(run_rows, r, "running", NotGiven, "none")
    /\ task' = [task EXCEPT
          ![r].pc = "s_astream",
          ![r].execution_input =
               ExecutionInput(creates[r].command, InputData(creates[r].input)),
          ![r].final_stream_modes = final_stream_modes(creates[r].stream_mode),
          ![r].only_interrupt_updates = ~user_requested_updates(creates[r].stream_mode)]
    /\ UNCHANGED <<thread_status, thread_meta, active_runs, broker, creates, reqs, obs, lim, subs, app>>

\* event_id = f"{run_id}_event_{event_counter}"
EventId(r, n) == [run |-> r, n |-> n]

\* Variant: a skipped event advances the counter too.
ExecSkipEventCounts(r) ==
    /\ Steps(r, "s_astream")
    /\ task[r].raw_n < lim.events
    /\ \E e \in EngineEvents(task[r].raw_n + 1) :
         /\ _should_skip_event(e)
         /\ task' = [task EXCEPT ![r].raw_n = @ + 1, ![r].nostream_n = @ + IsTagged(e),
                                  ![r].event_counter = @ + 1]
    /\ UNCHANGED <<thread_status, thread_meta, run_rows, active_runs, broker, creates,
                   reqs, obs, lim, subs, app>>

\* async for raw_event in graph.astream(...): a skipped event
ExecSkipEvent(r) ==
    /\ Steps(r, "s_astream")
    /\ task[r].raw_n < lim.events
    /\ \E e \in EngineEvents(task[r].raw_n + 1) :
         /\ _should_skip_event(e)
         /\ task' = [task EXCEPT ![r].raw_n = @ + 1, ![r].nostream_n = @ + IsTagged(e)]
    /\ UNCHANGED <<thread_status, thread_meta, run_rows, active_runs, broker, creates,
                   reqs, obs, lim, subs, app>>

\* streaming_service.put_to_broker(run_id, event_id, raw_event, ...)
put_to_broker(b, r, id) == [b EXCEPT ![r].pushed = Append(@, id)]

\* streaming_service.store_event_from_raw(run_id, event_id, raw_event, ...)
store_event_from_raw(b, r, id) == [b EXCEPT ![r].stored = Append(@, id)]

\* ... an event that is not skipped: the id is minted and the event handed to
\* the broker; the task then awaits the event store.  What the loop body
\* computes from the event after the store returns (has_interrupt,
\* final_output) is local to the task and recorded here, with the event in hand.
ExecNextEvent(r) ==
    /\ Steps(r, "s_astream")
    /\ task[r].raw_n < lim.events
    /\ \E e \in Produced(task[r].raw_n + 1) :
         /\ ~_should_skip_event(e)
         /\ task' = [task EXCEPT
              ![r].raw_n = @ + 1,
              ![r].nostream_n = @ + IsTagged(e),
              ![r].event_counter = @ + 1,
              ![r].has_interrupt = @ \/ DetectsInterrupt(e),
              ![r].final_output = IF TracksOutput(e) THEN TrackedOutput(e) ELSE @,
              ![r].last_whole = IF IsWholeState(e) THEN PayloadValue(PayloadOf(e)) ELSE @,
              ![r].pc = "s_store"]
         /\ broker' = put_to_broker(broker, r, EventId(r, task[r].event_counter + 1))
         /\ obs' = [obs EXCEPT ![r].marker_seen = @ \/ PayloadOf(e).interrupt]
    /\ UNCHANGED <<thread_status, thread_meta, run_rows, active_runs, creates, reqs, lim, subs, app>>

\* The event is stored and the loop awaits the next one.
ExecStore(r) ==
    /\ Steps(r, "s_store")
    /\ broker' = store_event_from_raw(broker, r, EventId(r, task[r].event_counter))
    /\ task' = [task EXCEPT ![r].pc = "s_astream"]
    /\ UNCHANGED <<thread_status, thread_meta, run_rows, active_runs, creates, reqs,
                   obs, lim, subs, app>>

\* The engine's sequence is exhausted.
ExecExhausted(r) ==
    /\ Steps(r, "s_astream")
    /\ task' = [task EXCEPT ![r] =
          [NoTask EXCEPT !.pc = "s_final_status",
                         !.final_output = task[r].final_output,
                         !.last_whole = task[r].last_whole,
                         !.has_interrupt = task[r].has_interrupt]]
    /\ UNCHANGED <<thread_status, thread_meta, run_rows, active_runs, broker, creates,
                   reqs, obs, lim, subs, app>>

FinalStatus(r) == IF task[r].has_interrupt THEN "interrupted" ELSE "completed"

\* update_run_status(run_id, "interrupted" | "completed", output=final_output or {})
ExecFinalStatus(r) ==
    /\ Steps(r, "s_final_status")
    /\ run_rows' = update_run_status(run_rows, r, FinalStatus(r),
                                     OrEmpty(task[r].final_output), "none")
    /\ task' = [task EXCEPT ![r].pc = "s_final_thread", ![r].final_output = Null,
                            ![r].last_whole = Null]
    /\ UNCHANGED <<thread_status, thread_meta, active_runs, broker, creates, reqs, obs, lim, subs, app>>

FinalThreadStatus(r) == IF task[r].has_interrupt THEN "interrupted" ELSE "idle"

\* set_thread_status(session, thread_id, "interrupted" | "idle")
ExecFinalThread(r) ==
    /\ Steps(r, "s_final_thread")
    /\ thread_status' = set_thread_status(thread_status, ThreadOf(r), FinalThreadStatus(r))
    /\ task' = [task EXCEPT ![r].pc = "s_exit", ![r].has_interrupt = FALSE]
    /\ UNCHANGED <<thread_meta, run_rows, active_runs, broker, creates, reqs, obs, lim, subs, app>>

\* The try block ends; finally.
ExecExit(r) ==
    /\ Steps(r, "s_exit")
    /\ Finally(r, "ok", broker)
    /\ UNCHANGED <<thread_status, thread_meta, run_rows, creates, reqs, obs, lim, subs, app>>

\* A requested cancellation reaches the task at an await of the try block:
\* CancelledError is raised there and the handler starts.
ExecCancelInTry(r) ==
    /\ task[r].pc \in TryPcs
    /\ task[r].must_cancel
    /\ task' = [task EXCEPT ![r] = [NoTask EXCEPT !.pc = "c_status"]]
    /\ obs' = [obs EXCEPT ![r].cancel_at =
                    IF @ # "none" THEN @
                    ELSE IF task[r].pc = "s_astream" THEN "astream" ELSE "other"]
    /\ UNCHANGED <<thread_status, thread_meta, run_rows, active_runs, broker, creates,
                   reqs, lim, subs, app>>

\* ... at an await of an except block: the rest of the handler is skipped.
ExecCancelInHandler(r) ==
    /\ task[r].pc \in CancelPcs \cup ErrorPcs
    /\ task[r].must_cancel
    /\ Finally(r, "cancelled", broker)
    /\ obs' = [obs EXCEPT ![r].cut = "cancel"]
    /\ UNCHANGED <<thread_status, thread_meta, run_rows, creates, reqs, lim, subs, app>>

\* except asyncio.CancelledError: update_run_status(run_id, "cancelled", output={})
ExecCancelStatus(r) ==
    /\ Steps(r, "c_status")
    /\ run_rows' = update_run_status(run_rows, r, "cancelled", Empty, "none")
    /\ task' = [task EXCEPT ![r].pc = "c_thread"]
    /\ UNCHANGED <<thread_status, thread_meta, active_runs, broker, creates, reqs, obs, lim, subs, app>>

\* set_thread_status(session, thread_id, "idle")
ExecCancelThread(r) ==
    /\ Steps(r, "c_thread")
    /\ thread_status' = set_thread_status(thread_status, ThreadOf(r), "idle")
    /\ task' = [task EXCEPT ![r].pc = "c_signal"]
    /\ UNCHANGED <<thread_meta, run_rows, active_runs, broker, creates, reqs, obs, lim, subs, app>>

\* streaming_service.signal_run_cancelled(run_id); raise; finally
ExecCancelSignal(r) ==
    /\ Steps(r, "c_signal")
    /\ Finally(r, "cancelled", signal_run_cancelled(broker, r))
    /\ UNCHANGED <<thread_status, thread_meta, run_rows, creates, reqs, obs, lim, subs, app>>

\* An await of the try block raises (status persistence, graph lookup, engine
\* step, event store): the except Exception handler starts.
ExecFail(r) ==
    /\ task[r].pc \in TryPcs \ {"s_exit"}
    /\ ~task[r].must_cancel
    /\ task' = [task EXCEPT ![r] = [NoTask EXCEPT !.pc = "e_status"]]
    /\ obs' = [obs EXCEPT ![r].fail_in_try = TRUE]
    /\ UNCHANGED <<thread_status, thread_meta, run_rows, active_runs, broker, creates,
                   reqs, lim, subs, app>>

\* except Exception: update_run_status(run_id, "failed", output={}, error=str(e))
ExecErrStatus(r) ==
    /\ Steps(r, "e_status")
    /\ run_rows' = update_run_status(run_rows, r, "failed", Empty, "msg")
    /\ task' = [task EXCEPT ![r].pc = "e_thread"]
    /\ UNCHANGED <<thread_status, thread_meta, active_runs, broker, creates, reqs, obs, lim, subs, app>>

ExecErrThread(r) ==
    /\ Steps(r, "e_thread")
    /\ thread_status' = set_thread_status(thread_status, ThreadOf(r), "idle")
    /\ task' = [task EXCEPT ![r].pc = "e_signal"]
    /\ UNCHANGED <<thread_meta, run_rows, active_runs, broker, creates, reqs, obs, lim, subs, app>>

\* streaming_service.signal_run_error(run_id, str(e)); raise; finally
ExecErrSignal(r) ==
    /\ Steps(r, "e_signal")
    /\ Finally(r, "failed", signal_run_error(broker, r))
    /\ UNCHANGED <<thread_status, thread_meta, run_rows, creates, reqs, obs, lim, subs, app>>

\* A persistence call of an except block raises: finally, and the new
\* exception leaves the task.
ExecHandlerFail(r) ==
    /\ task[r].pc \in {"c_status", "c_thread", "e_status", "e_thread"}
    /\ ~task[r].must_cancel
    /\ Finally(r, "failed", broker)
    /\ obs' = [obs EXCEPT ![r].cut = "fault"]
    /\ UNCHANGED <<thread_status, thread_meta, run_rows, creates, reqs, lim, subs, app>>

Executor(r) ==
    \/ ExecRunning(r) \/ ExecSkipEvent(r) \/ ExecNextEvent(r)
    \/ ExecStore(r) \/ ExecExhausted(r) \/ ExecFinalStatus(r) \/ ExecFinalThread(r)
    \/ ExecExit(r) \/ ExecCancelInTry(r) \/ ExecCancelInHandler(r)
    \/ ExecCancelStatus(r) \/ ExecCancelThread(r) \/ ExecCancelSignal(r)
    \/ ExecFail(r) \/ ExecErrStatus(r) \/ ExecErrThread(r) \/ ExecErrSignal(r)
    \/ ExecHandlerFail(r)

\* ------------------------------------------------- streaming_service (coordinator)
\* cancel_run(run_id): look the Task Handle up; if present, hard-cancel the task.
cancel_run(tk, r) == IF r \in active_runs THEN TaskCancel(tk, r) ELSE tk

\* interrupt_run(run_id): ask the engine to interrupt; the task is not cancelled.
interrupt_run(b, r) == [b EXCEPT ![r].interrupt_requested = TRUE]

\* ------------------------------------------------- requests on an existing run id
\* A run id is known to clients once its row is committed (create's response,
\* list_runs).
Known(r) == run_rows[r].present # "no"

\* Who the requests for run r come from: the run's owner on the run's thread,
\* and in the scenario with foreign callers any user on any thread.
Callers(r) ==
    IF lim.foreign THEN [user : Users, thread_id : Threads]
    ELSE {[user |-> Owner, thread_id |-> run_rows[r].thread]}

\* Variant: the row is looked up by run_id alone.
SelectsByRunId(r, who) == RowExists(r)

\* select(RunORM).where(run_id == run_id, thread_id == thread_id,
\*                      user_id == user.identity) finds the row.
Selects(r, who) ==
    /\ RowExists(r)
    /\ run_rows[r].thread = who.thread_id
    /\ who.user = Owner

Issues(q) ==
    /\ q <= lim.reqs
    /\ reqs[q].pc = "new"
    /\ IF q = 1 THEN TRUE ELSE reqs[q - 1].pc # "new"

Touch(r) == [obs EXCEPT ![r].touched = TRUE]

\* select(RunORM) finds no row: 404 (every endpoint).
ReqNotFound(q) ==
    /\ Issues(q)
    /\ \E r \in RunIds :
         /\ Known(r) /\ ~RowExists(r)
         /\ reqs' = [reqs EXCEPT ![q] = Answer("404")]
    /\ UNCHANGED <<thread_status, thread_meta, run_rows, active_runs, task, broker,
                   creates, obs, lim, subs, app>>

\* cancel_run_endpoint(action=cancel) / update_run(status=cancelled):
\* streaming_service.cancel_run(run_id)
CancelCall(q) ==
    /\ Issues(q)
    /\ \E r \in RunIds : \E who \in Callers(r), kind \in {"cancel", "update"}, wait \in BOOLEAN :
         /\ Selects(r, who)
         /\ kind = "update" => ~wait
         /\ reqs' = [reqs EXCEPT ![q] =
               [NoReq EXCEPT !.pc = "persist", !.caller = who, !.kind = kind, !.run = r,
                             !.arg = "cancelled", !.wait = wait]]
         /\ task' = cancel_run(task, r)
         /\ obs' = Touch(r)
    /\ UNCHANGED <<thread_status, thread_meta, run_rows, active_runs, broker, creates, lim, subs, app>>

\* cancel_run_endpoint(action=interrupt) / update_run(status=interrupted):
\* streaming_service.interrupt_run(run_id)
InterruptCall(q) ==
    /\ Issues(q)
    /\ \E r \in RunIds : \E who \in Callers(r), kind \in {"cancel", "update"}, wait \in BOOLEAN :
         /\ Selects(r, who)
         /\ kind = "update" => ~wait
         /\ reqs' = [reqs EXCEPT ![q] =
               [NoReq EXCEPT !.pc = "persist", !.caller = who, !.kind = kind, !.run = r,
                             !.arg = "interrupted", !.wait = wait]]
         /\ broker' = interrupt_run(broker, r)
         /\ obs' = [obs EXCEPT ![r].touched = TRUE,
                                ![r].interrupt_live = @ \/ r \in active_runs]
    /\ UNCHANGED <<thread_status, thread_meta, run_rows, active_runs, task, creates, lim, subs, app>>

\* Variant: the requested status is persisted only when a task is registered.
PersistIfHandle(q) ==
    /\ reqs[q].pc = "persist"
    /\ run_rows' = IF reqs[q].run \in active_runs
                    THEN update_run_status(run_rows, reqs[q].run, reqs[q].arg,
                                           NotGiven, "none")
                    ELSE run_rows
    /\ reqs' = [reqs EXCEPT ![q].pc = "reload",
                             ![q].wait = @ /\ reqs[q].run \in active_runs]
    /\ UNCHANGED <<thread_status, thread_meta, active_runs, task, broker, creates, obs, lim, subs, app>>

\* update(RunORM).where(run_id).values(status=...); commit
PersistRequested(q) ==
    /\ reqs[q].pc = "persist"
    /\ run_rows' = update_run_status(run_rows, reqs[q].run, reqs[q].arg, NotGiven, "none")
    /\ reqs' = [reqs EXCEPT ![q].pc = "reload",
                             ![q].wait = @ /\ reqs[q].run \in active_runs]
    /\ UNCHANGED <<thread_status, thread_meta, active_runs, task, broker, creates, obs, lim, subs, app>>

\* if wait: task = active_runs.get(run_id); if task: await task
\* (the request's wait field holds "wait asked and a task found")
Settled(q) == reqs[q].wait => TaskDone(reqs[q].run)

\* The reload finds the row and the Run is returned.
ReloadReturn(q) ==
    /\ reqs[q].pc = "reload"
    /\ Settled(q)
    /\ RowExists(reqs[q].run)
    /\ reqs' = [reqs EXCEPT ![q] = Answer("200")]
    /\ obs' = [obs EXCEPT ![reqs[q].run].cancels =
                    IF reqs[q].arg = "cancelled" THEN @ + 1 ELSE @]
    /\ UNCHANGED <<thread_status, thread_meta, run_rows, active_runs, task, broker,
                   creates, lim, subs, app>>

\* The reload finds no row: 404 "not found after cancellation" from
\* cancel_run_endpoint; update_run reads a column of None and fails.
ReloadMissing(q) ==
    /\ reqs[q].pc = "reload"
    /\ Settled(q)
    /\ ~RowExists(reqs[q].run)
    /\ reqs' = [reqs EXCEPT ![q] =
                    Answer(IF reqs[q].kind = "cancel" THEN "404" ELSE "500")]
    /\ UNCHANGED <<thread_status, thread_meta, run_rows, active_runs, task, broker,
                   creates, obs, lim, subs, app>>

\* ------------------------------------------------- delete_run
\* Variant: the conflict is answered after the task has been cancelled.
DeleteConflictCancels(q) ==
    /\ Issues(q)
    /\ \E r \in RunIds : \E who \in Callers(r) :
         /\ Selects(r, who)
         /\ run_rows[r].status \in ActiveStatuses
         /\ reqs' = [reqs EXCEPT ![q] = Reply("409", r, who)]
         /\ task' = cancel_run(task, r)
    /\ UNCHANGED <<thread_status, thread_meta, run_rows, active_runs, broker,
                   creates, obs, lim, subs, app>>

\* Active and not forced: 409.
DeleteConflict(q) ==
    /\ Issues(q)
    /\ \E r \in RunIds : \E who \in Callers(r) :
         /\ Selects(r, who)
         /\ run_rows[r].status \in ActiveStatuses
         /\ reqs' = [reqs EXCEPT ![q] = Reply("409", r, who)]
    /\ UNCHANGED <<thread_status, thread_meta, run_rows, active_runs, task, broker,
                   creates, obs, lim, subs, app>>

\* Active and forced: streaming_service.cancel_run, then await the task.
DeleteForce(q) ==
    /\ Issues(q)
    /\ \E r \in RunIds : \E who \in Callers(r) :
         /\ Selects(r, who)
         /\ run_rows[r].status \in ActiveStatuses
         /\ reqs' = [reqs EXCEPT ![q] =
               [NoReq EXCEPT !.pc = "delete", !.caller = who, !.kind = "delete", !.run = r,
                             !.arg = "force1", !.wait = r \in active_runs]]
         /\ task' = cancel_run(task, r)
         /\ obs' = Touch(r)
    /\ UNCHANGED <<thread_status, thread_meta, run_rows, active_runs, broker, creates, lim, subs, app>>

\* Not active: straight to the delete.
DeleteInactive(q) ==
    /\ Issues(q)
    /\ \E r \in RunIds : \E who \in Callers(r), force \in {"force0", "force1"} :
         /\ Selects(r, who)
         /\ run_rows[r].status \notin ActiveStatuses
         /\ reqs' = [reqs EXCEPT ![q] =
               [NoReq EXCEPT !.pc = "delete", !.caller = who, !.kind = "delete", !.run = r,
                             !.arg = force]]
         /\ obs' = Touch(r)
    /\ UNCHANGED <<thread_status, thread_meta, run_rows, active_runs, task, broker,
                   creates, lim, subs, app>>

\* delete(RunORM); commit; task = active_runs.pop(run_id, None);
\* if task and not task.done(): task.cancel()
DeleteFinish(q) ==
    /\ reqs[q].pc = "delete"
    /\ Settled(q)
    /\ run_rows' = [run_rows EXCEPT ![reqs[q].run].present = "deleted"]
    /\ task' = cancel_run(task, reqs[q].run)
    /\ active_runs' = active_runs \ {reqs[q].run}
    /\ reqs' = [reqs EXCEPT ![q] = Answer("204")]
    /\ UNCHANGED <<thread_status, thread_meta, broker, creates, obs, lim, subs, app>>

\* ------------------------------------------------- join_run
\* Already completed / failed / cancelled, or no task registered: the
\* persisted output (or {}) is returned.
JoinImmediate(q) ==
    /\ Issues(q)
    /\ \E r \in RunIds : \E who \in Callers(r) :
         /\ Selects(r, who)
         /\ run_rows[r].status \in {"completed", "failed", "cancelled"}
              \/ r \notin active_runs
         /\ reqs' = [reqs EXCEPT ![q] = Reply("200", r, who)]
    /\ UNCHANGED <<thread_status, thread_meta, run_rows, active_runs, task, broker,
                   creates, obs, lim, subs, app>>

\* task = active_runs.get(run_id); await asyncio.wait_for(task, timeout=30.0)
JoinWait(q) ==
    /\ Issues(q)
    /\ \E r \in RunIds : \E who \in Callers(r) :
         /\ Selects(r, who)
         /\ run_rows[r].status \notin {"completed", "failed", "cancelled"}
         /\ r \in active_runs
         /\ reqs' = [reqs EXCEPT ![q] =
               [NoReq EXCEPT !.pc = "wait_for", !.caller = who, !.kind = "join", !.run = r]]
    /\ UNCHANGED <<thread_status, thread_meta, run_rows, active_runs, task, broker,
                   creates, obs, lim, subs, app>>

\* The 30 s run out: asyncio.wait_for cancels the task it awaits, and waits
\* for it to finish.
JoinTimeout(q) ==
    /\ reqs[q].pc = "wait_for"
    /\ ~TaskDone(reqs[q].run)
    /\ task' = TaskCancel(task, reqs[q].run)
    /\ reqs' = [reqs EXCEPT ![q].pc = "timed_out"]
    /\ UNCHANGED <<thread_status, thread_meta, run_rows, active_runs, broker, creates, obs, lim, subs, app>>

\* The task ended normally or cancelled (TimeoutError and CancelledError are
\* caught): the persisted output is read and returned.
JoinReturn(q) ==
    /\ reqs[q].pc \in {"wait_for", "timed_out"}
    /\ TaskDone(reqs[q].run)
    /\ task[reqs[q].run].result # "failed"
    /\ reqs' = [reqs EXCEPT ![q] = Answer("200")]
    /\ UNCHANGED <<thread_status, thread_meta, run_rows, active_runs, task, broker,
                   creates, obs, lim, subs, app>>

\* The task ended with an exception: wait_for re-raises it and no except
\* clause of join_run catches it.
JoinRaises(q) ==
    /\ reqs[q].pc \in {"wait_for", "timed_out"}
    /\ TaskDone(reqs[q].run)
    /\ task[reqs[q].run].result = "failed"
    /\ reqs' = [reqs EXCEPT ![q] = Answer("500")]
    /\ UNCHANGED <<thread_status, thread_meta, run_rows, active_runs, task, broker,
                   creates, obs, lim, subs, app>>

\* ------------------------------------------------- get_run
\* The row is found and returned.
GetRun(q) ==
    /\ Issues(q)
    /\ \E r \in RunIds : \E who \in Callers(r) :
         /\ Selects(r, who)
         /\ reqs' = [reqs EXCEPT ![q] = Reply("200", r, who)]
    /\ UNCHANGED <<thread_status, thread_meta, run_rows, active_runs, task, broker,
                   creates, obs, lim, subs, app>>

\* The select of get_run, update_run, join_run, stream_run,
\* cancel_run_endpoint or delete_run finds no row for this caller: 404.
ReqForeign(q) ==
    /\ Issues(q)
    /\ \E r \in RunIds : \E who \in Callers(r) :
         /\ RowExists(r)
         /\ ~Selects(r, who)
         /\ reqs' = [reqs EXCEPT ![q] = Reply("404", r, who)]
    /\ UNCHANGED <<thread_status, thread_meta, run_rows, active_runs, task, broker,
                   creates, obs, lim, subs, app>>

\* ------------------------------------------------- stream_run
\* streaming_service.stream_run_execution(run, last_event_id): the stored
\* events after last_event_id are replayed, then the broker is subscribed to.
stream_run_execution(run, who) == Reply("replay", run, who)

\* Status completed / failed / cancelled: generate_final() yields one end
\* event and the response closes.
StreamTerminal(q) ==
    /\ Issues(q)
    /\ \E r \in RunIds : \E who \in Callers(r) :
         /\ Selects(r, who)
         /\ run_rows[r].status \in {"completed", "failed", "cancelled"}
         /\ reqs' = [reqs EXCEPT ![q] = Reply("end", r, who)]
    /\ UNCHANGED <<thread_status, thread_meta, run_rows, active_runs, task, broker,
                   creates, obs, lim, subs, app>>

\* Any other status: "stream active or pending runs via broker".
StreamAttach(q) ==
    /\ Issues(q)
    /\ \E r \in RunIds : \E who \in Callers(r) :
         /\ Selects(r, who)
         /\ run_rows[r].status \notin {"completed", "failed", "cancelled"}
         /\ reqs' = [reqs EXCEPT ![q] = stream_run_execution(r, who)]
    /\ UNCHANGED <<thread_status, thread_meta, run_rows, active_runs, task, broker,
                   creates, obs, lim, subs, app>>

\* ------------------------------------------------- streaming responses
OnDisconnect == {"absent", "continue", "cancel"}

\* (request.on_disconnect or "continue").lower() == "cancel"
CancelOnDisconnect(on_disconnect) ==
    (IF on_disconnect = "absent" THEN "continue" ELSE on_disconnect) = "cancel"

\* event_store list_after(run_id, last_event_id): the stored events whose
\* counter is greater, in order.
RECURSIVE list_after(_, _)
list_after(stored, k) ==
    IF stored = <<>> THEN <<>>
    ELSE IF Head(stored).n > k THEN <<Head(stored).n>> \o list_after(Tail(stored), k)
    ELSE list_after(Tail(stored), k)

\* The generator starts: the events stored after last_event_id are replayed
\* and the broker is subscribed to in one step, so that every event published
\* from now on is queued for this subscriber.
OpenReplay(s, r, k, od, cancels) ==
    /\ subs[s].pc = "none"
    /\ subs' = [subs EXCEPT ![s] =
          [NoSub EXCEPT !.pc = "live", !.run = r, !.on_disconnect = od,
                        !.cancel_on_disconnect = cancels, !.last_event_id = k,
                        !.got = list_after(broker[r].stored, k),
                        !.cursor = Len(broker[r].pushed)]]
    /\ UNCHANGED <<thread_status, thread_meta, run_rows, active_runs, task, broker,
                   creates, reqs, obs, lim, app>>

\* create_and_stream_run's response: stream_run_execution(run, None,
\* cancel_on_disconnect=cancel_on_disconnect)
SubReplayCreated(c) ==
    /\ creates[c].via = "stream" /\ creates[c].resp = "200"
    /\ \E od \in OnDisconnect :
         OpenReplay(CreateSub(c), c, 0, od, CancelOnDisconnect(od))

\* stream_run's response: stream_run_execution(run_model, last_event_id,
\* cancel_on_disconnect=False); last_event_id is an id the client has seen.
SubReplayStream(q) ==
    /\ reqs[q].resp = "replay"
    /\ \E k \in 0..Len(broker[reqs[q].run].pushed) :
         OpenReplay(ReqSub(q), reqs[q].run, k, "absent", FALSE)

\* The next live event is sent.
SubReceive(s) ==
    /\ subs[s].pc = "live"
    /\ subs[s].cursor < Len(broker[subs[s].run].pushed)
    /\ subs' = [subs EXCEPT
          ![s].cursor = @ + 1,
          ![s].got = Append(@, broker[subs[s].run].pushed[subs[s].cursor + 1].n)]
    /\ UNCHANGED <<thread_status, thread_meta, run_rows, active_runs, task, broker,
                   creates, reqs, obs, lim, app>>

\* The terminal marker (cancellation, error, or the broker's release) is
\* reached: the end event is sent and the response closes.
SubEnd(s) ==
    /\ subs[s].pc = "live"
    /\ subs[s].cursor = Len(broker[subs[s].run].pushed)
    /\ broker[subs[s].run].released \/ broker[subs[s].run].terminal # "none"
    /\ subs' = [subs EXCEPT ![s].pc = "ended"]
    /\ UNCHANGED <<thread_status, thread_meta, run_rows, active_runs, task, broker,
                   creates, reqs, obs, lim, app>>

\* The client goes away mid-stream; with cancel_on_disconnect the run is
\* cancelled (streaming_service.cancel_run).
SubDisconnect(s) ==
    /\ subs[s].pc = "live"
    /\ subs' = [subs EXCEPT ![s].pc = "disconnected"]
    /\ task' = IF subs[s].cancel_on_disconnect THEN cancel_run(task, subs[s].run)
               ELSE task
    /\ UNCHANGED <<thread_status, thread_meta, run_rows, active_runs, broker,
                   creates, reqs, obs, lim, app>>

Subscriber(s) ==
    \/ SubReceive(s) \/ SubEnd(s) \/ SubDisconnect(s)

\* The steps of a request whose run's row is there.
RequestOnRow(q) ==
    \/ StreamTerminal(q) \/ StreamAttach(q)
    \/ CancelCall(q) \/ InterruptCall(q) \/ PersistRequested(q)
    \/ ReloadReturn(q)
    \/ DeleteConflict(q) \/ DeleteForce(q) \/ DeleteInactive(q) \/ DeleteFinish(q)
    \/ JoinImmediate(q) \/ JoinWait(q) \/ JoinTimeout(q) \/ JoinReturn(q)
    \/ JoinRaises(q)

Request(q) ==
    \/ RequestOnRow(q) \/ ReqNotFound(q) \/ ReloadMissing(q)

\* ------------------------------------------------------- lifespan shutdown
\* The tasks that were created and are not done.
NotDone(tk) == {r \in RunIds : tk[r].pc \notin {"none", "done"}}

\* The tasks the shutdown loop walks: the values of main.py's active_runs.
ShutdownTasks == app.active_runs

RECURSIVE CancelAll(_, _)
CancelAll(tk, rs) ==
    IF rs = {} THEN tk
    ELSE LET r == CHOOSE x \in rs : TRUE
         IN CancelAll(TaskCancel(tk, r), rs \ {r})

\* After the yield: for task in active_runs.values(): if not task.done():
\* task.cancel().  The server has stopped serving: no handler is in flight.
ShutdownCancelRuns ==
    /\ app.pc = "serving"
    /\ \A c \in RunIds : creates[c].pc \in {"new", "done"}
    /\ \A q \in ReqIds : reqs[q].pc \in {"new", "done"}
    /\ task' = CancelAll(task, ShutdownTasks)
    /\ app' = [app EXCEPT !.pc = "stop_cleanup",
                          !.undone = NotDone(task),
                          !.cancelled = ShutdownTasks \cap NotDone(task)]
    /\ UNCHANGED <<thread_status, thread_meta, run_rows, active_runs, broker,
                   creates, reqs, obs, lim, subs>>

\* await event_store.stop_cleanup_task()
ShutdownStopCleanup ==
    /\ app.pc = "stop_cleanup"
    /\ app' = [app EXCEPT !.pc = "close"]
    /\ UNCHANGED <<thread_status, thread_meta, run_rows, active_runs, task, broker,
                   creates, reqs, obs, lim, subs>>

\* await db_manager.close()
ShutdownClose ==
    /\ app.pc = "close"
    /\ app' = [app EXCEPT !.pc = "closed"]
    /\ UNCHANGED <<thread_status, thread_meta, run_rows, active_runs, task, broker,
                   creates, reqs, obs, lim, subs>>

Shutdown == ShutdownCancelRuns \/ ShutdownStopCleanup \/ ShutdownClose

Create(c) ==
    \/ CreateValidate(c) \/ CreateMarkThread(c) \/ CreateInsert(c) \/ CreateSpawn(c)

Next ==
    \/ \E c \in RunIds : Create(c)
    \/ \E r \in RunIds : Executor(r)
    \/ \E q \in ReqIds : Request(q)

\* The executor's steps when no cancellation is ever requested.
ExecutorUncancelled(r) ==
    \/ ExecRunning(r) \/ ExecSkipEvent(r) \/ ExecNextEvent(r)
    \/ ExecStore(r) \/ ExecExhausted(r) \/ ExecFinalStatus(r) \/ ExecFinalThread(r)
    \/ ExecExit(r)
    \/ ExecFail(r) \/ ExecErrStatus(r) \/ ExecErrThread(r) \/ ExecErrSignal(r)
    \/ ExecHandlerFail(r)

\* Creates and executors alone: no request is made on a run once created.
NextUnrequested ==
    \/ \E c \in RunIds : Create(c)
    \/ \E r \in RunIds : ExecutorUncancelled(r)

\* Two create requests, whose runs execute concurrently.
InitPair == Start([runs |-> MaxPairRuns, reqs |-> 0, events |-> MaxPairEvents, modes |-> 0, opaque |-> FALSE, foreign |-> FALSE])

SpecPair == InitPair /\ [][NextUnrequested]_vars

\* One run whose engine produces several events.
InitLoop == Start([runs |-> 1, reqs |-> 0, events |-> MaxLoopEvents,
                   modes |-> 0, opaque |-> TRUE, foreign |-> FALSE])

SpecLoop == InitLoop /\ [][NextUnrequested]_vars

\* One run, its request's input and stream_mode drawn from all their shapes.
InitFields == Start([runs |-> 1, reqs |-> 0, events |-> MaxEvents, modes |-> MaxModes, opaque |-> TRUE, foreign |-> FALSE])

SpecFields == InitFields /\ [][NextUnrequested]_vars

\* Every handler, with requests from the owner and from other callers.
NextForeign ==
    \/ \E c \in RunIds : Create(c)
    \/ \E r \in RunIds : Executor(r)
    \/ \E q \in ReqIds : RequestOnRow(q) \/ GetRun(q) \/ ReqForeign(q)

\* One run and the requests made for it by any caller.
InitForeign == Start([runs |-> 1, reqs |-> MaxForeignReqs, events |-> MaxEvents,
                      modes |-> 0, opaque |-> FALSE, foreign |-> TRUE])

SpecForeign == InitForeign /\ [][NextForeign]_vars

\* The steps the event loop is bound to take once they are enabled: a handler
\* or the executor resuming from an await of the database, of the broker or
\* of a task that is done, and the delivery of a requested cancellation.  The
\* engine producing its next event, a fault, a timeout and the arrival of a
\* request are not among them.
Resumes ==
    \/ \E c \in RunIds : CreateMarkThread(c) \/ CreateInsert(c) \/ CreateSpawn(c)
    \/ \E r \in RunIds :
          \/ ExecRunning(r) \/ ExecStore(r) \/ ExecFinalStatus(r) \/ ExecFinalThread(r)
          \/ ExecExit(r) \/ ExecCancelInTry(r) \/ ExecCancelInHandler(r)
          \/ ExecCancelStatus(r) \/ ExecCancelThread(r) \/ ExecCancelSignal(r)
          \/ ExecErrStatus(r) \/ ExecErrThread(r) \/ ExecErrSignal(r)
    \/ \E q \in ReqIds :
          \/ PersistRequested(q) \/ ReloadReturn(q) \/ DeleteFinish(q)
          \/ JoinReturn(q) \/ JoinRaises(q)

NextSettle ==
    \/ \E c \in RunIds : Create(c)
    \/ \E r \in RunIds : Executor(r)
    \/ \E q \in ReqIds : RequestOnRow(q)

\* One run and one request for it, under a fair event loop.
InitSettle == Start([runs |-> 1, reqs |-> MaxSettleReqs, events |-> MaxEvents,
                     modes |-> 0, opaque |-> FALSE, foreign |-> FALSE])

SpecSettle == InitSettle /\ [][NextSettle]_vars /\ WF_vars(Resumes)

\* Creates, executors, stream requests and the streaming responses.
NextStreamed ==
    \/ \E c \in RunIds : Create(c) \/ SubReplayCreated(c)
    \/ \E r \in RunIds : Executor(r)
    \/ \E q \in ReqIds : StreamTerminal(q) \/ StreamAttach(q) \/ SubReplayStream(q)
    \/ \E s \in SubIds : Subscriber(s)

\* One run and the streams opened on it.
InitStream == Start([runs |-> 1, reqs |-> MaxStreamReqs, events |-> MaxStreamEvents, modes |-> 0, opaque |-> FALSE, foreign |-> FALSE])

SpecStream == InitStream /\ [][NextStreamed]_vars

\* One run is created, executes and is the target of a request; the
\* application shuts down at any moment at which no handler is in flight.
\* Requests are accepted only while serving.
NextShutdown ==
    \/ app.pc = "serving" /\ \E c \in RunIds : Create(c)
    \/ app.pc = "serving" /\ \E q \in ReqIds : RequestOnRow(q)
    \/ \E r \in RunIds : Executor(r)
    \/ Shutdown

InitShutdown == Start([runs |-> MaxRuns, reqs |-> MaxShutdownReqs, events |-> MaxEvents,
                       modes |-> 0, opaque |-> FALSE, foreign |-> FALSE])

SpecShutdown == InitShutdown /\ [][NextShutdown]_vars

\* One run, two requests against it.
Init == Start([runs |-> MaxRuns, reqs |-> MaxReqs, events |-> MaxEvents, modes |-> 0, opaque |-> FALSE, foreign |-> FALSE])

Spec == Init /\ [][Next]_vars

\* ================================================================ properties
\* C1: terminal run statuses are absorbing: once a run's persisted status is
\* completed, failed, cancelled or interrupted, no later write changes it to a
\* different status.
C1_TerminalAbsorbing ==
    [][\A r \in RunIds :
         (RowExists(r)
            /\ run_rows[r].status \in {"completed", "failed", "cancelled", "interrupted"}
            /\ run_rows'[r].present = "yes")
         => run_rows'[r].status = run_rows[r].status]_vars

\* A run created by create_run with no command that saw no marker, no fault
\* and no cancel, interrupt or delete request.
C2_CleanRun(r) ==
    /\ RowExists(r)
    /\ creates[r].via = "create_run" /\ creates[r].command = "none"
    /\ ~obs[r].marker_seen /\ ~obs[r].fail_in_try /\ obs[r].cut # "fault"
    /\ ~obs[r].touched

\* C2: a run created by create_run with no command, whose events carry no
\* interrupt marker, which does not fail and gets no cancel, interrupt or
\* delete request, only ever shows the statuses pending, running, completed,
\* and once its task is done it is completed and its thread idle.
C2_CleanRunCompletes ==
    \A r \in RunIds :
       C2_CleanRun(r) =>
          /\ run_rows[r].status \in {"pending", "running", "completed"}
          /\ TaskDone(r) => /\ run_rows[r].status = "completed"
                            /\ thread_status[ThreadOf(r)] = "idle"

\* C3: when the engine's events are exhausted without cancellation or failure,
\* the run and its thread are persisted interrupted if and only if an event
\* that was not dropped carried the interrupt marker, otherwise completed and
\* idle; an output is persisted in both cases.
C3_ExhaustionOutcome ==
    \A r \in RunIds :
       (task[r].pc = "s_exit" /\ RowExists(r) /\ ~obs[r].touched) =>
          /\ run_rows[r].output # Null
          /\ IF obs[r].marker_seen
             THEN /\ run_rows[r].status = "interrupted"
                  /\ thread_status[ThreadOf(r)] = "interrupted"
             ELSE /\ run_rows[r].status = "completed"
                  /\ thread_status[ThreadOf(r)] = "idle"

\* C4: a hard cancel delivered while the task awaits the next engine event
\* ends with the thread idle, the broker signalled cancelled, the task
\* resolved as cancelled and, unless an interrupt request wrote over it, the
\* run persisted cancelled with output {}.
C4_HardCancelOutcome ==
    \A r \in RunIds :
       (TaskDone(r) /\ obs[r].cancel_at = "astream" /\ obs[r].cut # "fault"
          /\ RowExists(r)) =>
          /\ thread_status[ThreadOf(r)] = "idle"
          /\ broker[r].terminal = "cancelled"
          /\ task[r].result = "cancelled"
          /\ ~broker[r].interrupt_requested =>
                run_rows[r].status = "cancelled" /\ run_rows[r].output = Empty

\* C5: a failure of the executor other than cancellation ends with the thread
\* idle, the broker signalled error, the failure propagated out of the task
\* and, unless a request wrote over it, the run persisted failed with output
\* {} and the failure's message.
C5_FailureOutcome ==
    \A r \in RunIds :
       (TaskDone(r) /\ obs[r].fail_in_try /\ obs[r].cut # "fault" /\ RowExists(r)) =>
          /\ thread_status[ThreadOf(r)] = "idle"
          /\ broker[r].terminal = "error"
          /\ task[r].result = "failed"
          /\ ~obs[r].touched =>
                /\ run_rows[r].status = "failed"
                /\ run_rows[r].output = Empty
                /\ run_rows[r].error = "msg"

C8_CancelledEmptyOutput ==
    \A r \in RunIds :
       (obs[r].cancels >= 1 /\ task[r].pc \in {"none", "done"} /\ RowExists(r)
          /\ ~broker[r].interrupt_requested) =>
          run_rows[r].status = "cancelled" /\ run_rows[r].output = Empty

\* C9: after an interrupt action on a run whose engine produced no interrupt
\* marker (the run not failing and not being cancelled), once the task has
\* settled the thread's persisted status is interrupted, so that a create
\* carrying a resume command passes validation.
C9_InterruptLeavesThreadInterrupted ==
    \A r \in RunIds :
       (obs[r].interrupt_live /\ ~obs[r].marker_seen /\ TaskDone(r)
          /\ ~obs[r].fail_in_try /\ obs[r].cut = "none"
          /\ obs[r].cancel_at = "none") =>
          thread_status[ThreadOf(r)] = "interrupted"

C11_ActiveRunThreadBusy ==
    \A r \in RunIds :
       task[r].pc \notin {"none", "done", "s_exit", "c_signal", "e_signal"}
          => thread_status[ThreadOf(r)] = "busy"

\* C12: a run that stops being active has had its thread written back from
\* busy to idle or interrupted: once the run's task is done (nothing having
\* raised but cancellation), the thread of this only run is no longer busy.
C12_ThreadWrittenBack ==
    \A r \in RunIds :
       (TaskDone(r) /\ obs[r].cut # "fault" /\ ~obs[r].fail_in_try)
          => thread_status[ThreadOf(r)] \in {"idle", "interrupted"}

\* C13: a registry entry always stands for a task that exists and is not
\* done, and a create handler starts a task and registers it only for a
\* run_id that has no task and no entry yet: no run_id gets a second task.
C13_OneTaskPerRun ==
    /\ [](\A r \in RunIds : r \in active_runs => task[r].pc \notin {"none", "done"})
    /\ [][\A c \in RunIds, r \in RunIds :
            (creates[c].pc = "spawn" /\ creates'[c].pc = "done"
               /\ (task'[r] # task[r] \/ (r \in active_runs' /\ r \notin active_runs)))
            => (r = c /\ task[r].pc = "none" /\ r \notin active_runs)]_vars

\* Two runs, created by one request each, have their tasks registered at once.
C13_Witness ==
    /\ active_runs = {1, 2}
    /\ task[1].pc = "s_astream" /\ task[2].pc = "s_astream"
    /\ creates[1].thread = creates[2].thread

\* C14: the ids handed to the broker and to the store for a run are
\* run_event_1, run_event_2, ... in order, without gap or repeat; while the
\* loop runs the counter equals the number of ids minted, and an event that
\* is dropped mints none.
C14_EventIdsDense ==
    \A r \in RunIds :
       /\ \A i \in 1..Len(broker[r].pushed) : broker[r].pushed[i] = [run |-> r, n |-> i]
       /\ \A i \in 1..Len(broker[r].stored) : broker[r].stored[i] = [run |-> r, n |-> i]
       /\ task[r].pc \in {"s_astream", "s_store"} =>
             /\ task[r].event_counter = Len(broker[r].pushed)
             /\ task[r].event_counter <= task[r].raw_n

\* Of three events produced, one was dropped and two ids were minted.
C14_Witness ==
    \E r \in RunIds :
       /\ task[r].raw_n = 3 /\ task[r].pc = "s_store"
       /\ Len(broker[r].pushed) = 2 /\ Len(broker[r].stored) = 1

\* C15: an event tagged do-not-stream is neither pushed to the broker nor
\* appended to the store, and every other event is handed to both: while the
\* loop runs, the events pushed are exactly the untagged ones produced so
\* far, and the store holds them all but the one whose store call is pending.
C15_NostreamDropped ==
    \A r \in RunIds :
       task[r].pc \in {"s_astream", "s_store"} =>
          /\ Len(broker[r].pushed) + task[r].nostream_n = task[r].raw_n
          /\ Len(broker[r].stored) + (IF task[r].pc = "s_store" THEN 1 ELSE 0)
                = Len(broker[r].pushed)

\* Two events produced, one of them tagged: one pushed and stored.
C15_Witness ==
    \E r \in RunIds :
       /\ task[r].pc = "s_astream" /\ task[r].raw_n = 2 /\ task[r].nostream_n = 1
       /\ Len(broker[r].pushed) = 1 /\ Len(broker[r].stored) = 1

\* C16: when the executor has terminated, by any path in which nothing raised
\* but cancellation, the sequence of event ids appended to the store equals
\* the sequence pushed to the broker.
C16_StoreEqualsBroker ==
    \A r \in RunIds :
       (TaskDone(r) /\ ~obs[r].fail_in_try /\ obs[r].cut # "fault")
          => broker[r].stored = broker[r].pushed

\* C17: a delete without force goes on to the deletion only for a run whose
\* status is not pending, running or streaming, and the step that answers 409
\* leaves the rows, the registry, the tasks, the threads and the broker as
\* they were.
C17_DeleteConflictChangesNothing ==
    [][\A q \in ReqIds :
         /\ (reqs[q].pc = "new" /\ reqs'[q].pc = "delete" /\ reqs'[q].arg = "force0")
               => run_rows[reqs'[q].run].status \notin ActiveStatuses
         /\ (reqs[q].pc = "new" /\ reqs'[q].resp = "409")
               => UNCHANGED <<run_rows, active_runs, task, thread_status,
                              thread_meta, broker>>]_vars

\* A delete was answered 409 and the run's task goes on, registered and uncancelled.
C17_Witness ==
    \E q \in ReqIds, r \in RunIds :
       /\ reqs[q].resp = "409"
       /\ r \in active_runs /\ task[r].pc = "s_astream" /\ ~task[r].must_cancel
       /\ run_rows[r].status = "running"

\* C18: after a delete has succeeded the run is gone for good: in every later
\* state its record is absent, the registry holds no handle for its run_id,
\* and its task, if it has one, is done or has been cancelled.
C18_DeletedRunIsGone ==
    \A r \in RunIds :
       run_rows[r].present = "deleted" =>
          /\ r \notin active_runs
          /\ \/ task[r].pc \in {"none", "done"}
             \/ task[r].must_cancel
             \/ task[r].pc \in CancelPcs

\* C19: a join that waited for the run's task answers with the persisted
\* output as a normal result, however the task ended (its except blocks
\* having run undisturbed by persistence faults).
C19_JoinNeverErrors ==
    [][\A q \in ReqIds :
         (reqs[q].kind = "join" /\ reqs'[q].pc = "done"
            /\ obs[reqs[q].run].cut # "fault")
         => reqs'[q].resp = "200"]_vars

\* C20: a stream request for a run whose persisted status is completed,
\* failed, cancelled or interrupted is answered with one end event and closed,
\* without replay of stored events and without a broker subscription.
C20_TerminalStreamEndsAtOnce ==
    [][\A q \in ReqIds :
         (reqs[q].pc = "new" /\ reqs'[q].resp \in {"end", "replay"}
            /\ run_rows[reqs'[q].run].status
                 \in {"completed", "failed", "cancelled", "interrupted"})
         => reqs'[q].resp = "end"]_vars

\* The event counters n+1, n+2, ..., m in order.
RECURSIVE CountersFrom(_, _)
CountersFrom(n, m) == IF n >= m THEN <<>> ELSE <<n + 1>> \o CountersFrom(n + 1, m)

\* The live events queued for a subscriber and not yet sent.
RECURSIVE QueuedFrom(_, _)
QueuedFrom(pushed, i) ==
    IF i >= Len(pushed) THEN <<>> ELSE <<pushed[i + 1].n>> \o QueuedFrom(pushed, i + 1)

\* C21: a subscriber that reconnected through stream_run with last-seen event
\* id k and has been switched to live delivery has received, or has queued, exactly
\* the events of the run whose counter is greater than k, once each and in
\* production order, whatever the executor did while it attached.
C21_ReconnectSeesAllAfter ==
    \A q \in ReqIds :
       LET sub == subs[ReqSub(q)] IN
       sub.pc \in {"live", "ended"} =>
          sub.got \o QueuedFrom(broker[sub.run].pushed, sub.cursor)
             = CountersFrom(sub.last_event_id, Len(broker[sub.run].pushed))

C23_StreamModesNormalized ==
    \A r \in RunIds :
       task[r].pc \in {"s_astream", "s_store"} =>
          LET requested == creates[r].stream_mode.v
              modes == task[r].final_stream_modes IN
          /\ "messages-tuple" \notin Range(modes)
          /\ requested = <<>> => modes = <<"values", "updates">>
          /\ "updates" \in Range(modes)
          /\ task[r].only_interrupt_updates <=> "updates" \notin Range(requested)

\* C24: the engine is invoked with the command alone when the request carries
\* a command (the run's input is not part of what is passed), and with the
\* run's input, request.input or {}, when it carries none.
C24_CommandReplacesInput ==
    \A r \in RunIds :
       task[r].pc \in {"s_astream", "s_store"} =>
          LET x == task[r].execution_input IN
          IF creates[r].command = "none"
          THEN /\ x.kind = "input"
               /\ x.input = (IF creates[r].input = "absent" THEN "empty"
                             ELSE creates[r].input)
          ELSE /\ x.kind = "command"
               /\ x.input = "unused"
               /\ x.resume = (creates[r].command = "resume")
               /\ x.goto = (creates[r].command = "goto")

\* A resume command and an input were sent together and the engine was started.
C24_Witness ==
    \E r \in RunIds :
       /\ task[r].pc = "s_astream" /\ creates[r].command = "resume"
       /\ creates[r].input = "x1" /\ task[r].execution_input.kind = "command"

\* C25: the final status write of a run whose tracked output cannot be
\* serialized does not raise: it persists the status the run has earned
\* together with the diagnostic payload in place of the output, and the
\* executor goes on to the same thread-status write, so that the run leaves
\* the try block completed with its thread idle, or interrupted with its
\* thread interrupted.
C25_SerializationNotFatal ==
    /\ [][\A r \in RunIds :
            (task[r].pc = "s_final_status" /\ task[r].final_output.k = "opaque"
               /\ ~task[r].must_cancel /\ RowExists(r)
               /\ task'[r].pc \notin {"s_final_status", "e_status"})
            => /\ task'[r].pc = "s_final_thread"
               /\ run_rows'[r].status
                    = (IF task[r].has_interrupt THEN "interrupted" ELSE "completed")
               /\ run_rows'[r].output = Diagnostic]_vars
    /\ [](\A r \in RunIds :
            (task[r].pc = "s_exit" /\ RowExists(r)) =>
               \/ run_rows[r].status = "completed"
                    /\ thread_status[creates[r].thread] = "idle"
               \/ run_rows[r].status = "interrupted"
                    /\ thread_status[creates[r].thread] = "interrupted")

\* A run completed with the diagnostic payload as its output and its thread idle.
C25_Witness ==
    \E r \in RunIds :
       /\ task[r].pc = "s_exit" /\ run_rows[r].output = Diagnostic
       /\ run_rows[r].status = "completed" /\ thread_status[creates[r].thread] = "idle"

\* C26: a request whose caller is not the run's owner, or whose thread_id is
\* not the run's, is answered not-found in one step that leaves the run's
\* row, its registry entry, its task, the threads and the broker as they were.
C26_ForeignRequestHasNoEffect ==
    [][\A q \in ReqIds :
         (reqs[q].pc = "new" /\ reqs'[q].pc # "new"
            /\ (reqs'[q].caller.user # "u1"
                  \/ reqs'[q].caller.thread_id # run_rows[reqs'[q].run].thread))
         => /\ reqs'[q].pc = "done" /\ reqs'[q].resp = "404"
            /\ UNCHANGED <<run_rows, active_runs, task, thread_status, thread_meta,
                           broker, subs>>]_vars

\* Another user's request was answered 404 while the run's task goes on,
\* registered and uncancelled.
C26_Witness ==
    \E q \in ReqIds :
       /\ reqs[q].resp = "404" /\ reqs[q].caller.user = "u2"
       /\ reqs[q].run \in active_runs
       /\ task[reqs[q].run].pc = "s_astream" /\ ~task[reqs[q].run].must_cancel
       /\ run_rows[reqs[q].run].status = "running"

\* C27: a cancel-endpoint request with wait=1 that found a task registered
\* returns only when that task is done, returns the Run (200) however the task
\* ended as long as the row is there, and with action=cancel it returns
\* eventually once the event loop is fair.
C27_WaitSettles ==
    /\ [][\A q \in ReqIds :
            (reqs[q].pc = "reload" /\ reqs[q].kind = "cancel" /\ reqs[q].wait
               /\ reqs'[q].pc = "done")
            => /\ TaskDone(reqs[q].run)
               /\ run_rows[reqs[q].run].present = "yes" => reqs'[q].resp = "200"]_vars
    /\ \A q \in ReqIds :
          (reqs[q].pc = "reload" /\ reqs[q].kind = "cancel"
             /\ reqs[q].arg = "cancelled" /\ reqs[q].wait)
          ~> reqs[q].pc = "done"

\* C28 as stated: while the loop runs the tracked output is the payload of the
\* last whole-state event that was not dropped (None when there was none),
\* events of other modes leaving it as it is, and the final status write of
\* the completed or interrupted path persists that payload, or {} in its
\* absence.
C28_OutputIsLastWholeState ==
    /\ [](\A r \in RunIds :
            task[r].pc \in {"s_astream", "s_store", "s_final_status"}
               => task[r].final_output = task[r].last_whole)
    /\ [][\A r \in RunIds :
            (task[r].pc = "s_final_status" /\ task'[r].pc = "s_final_thread"
               /\ RowExists(r))
            => /\ run_rows'[r].status \in {"completed", "interrupted"}
               /\ run_rows'[r].output = (IF task[r].last_whole = Null THEN Empty
                                         ELSE task[r].last_whole)]_vars

\* Three events went to the broker and the tracked output is the payload of
\* the second: the third, of another mode, did not change it.
C28_Witness ==
    \E r \in RunIds :
       /\ task[r].pc = "s_astream" /\ task[r].raw_n = 3 /\ task[r].event_counter = 3
       /\ task[r].final_output = Val(2)

\* C28, amended: the tracked output is the payload of the last whole-state
\* event that was not dropped, events of other modes leaving it as it is; the
\* final status write of the completed or interrupted path persists that
\* payload when it can be serialized, the diagnostic payload when it cannot,
\* and {} when no whole-state event was produced.
C28_OutputIsLastWholeStateSerialized ==
    /\ [](\A r \in RunIds :
            task[r].pc \in {"s_astream", "s_store", "s_final_status"}
               => task[r].final_output = task[r].last_whole)
    /\ [][\A r \in RunIds :
            (task[r].pc = "s_final_status" /\ task'[r].pc = "s_final_thread"
               /\ RowExists(r))
            => /\ run_rows'[r].status \in {"completed", "interrupted"}
               /\ run_rows'[r].output =
                    (IF task[r].last_whole = Null THEN Empty
                     ELSE IF task[r].last_whole.k = "opaque" THEN Diagnostic
                     ELSE task[r].last_whole)]_vars

\* C29: on application shutdown, every run task that was started by create_run
\* or create_and_stream_run and is not yet done is cancelled before the
\* event-store cleanup task is stopped and the database is closed.
C29_ShutdownCancelsRuns ==
    app.pc \in {"close", "closed"} => app.undone \subseteq app.cancelled

\* C30: run creation is ordered as persist, start, register.  The step that
\* creates a run's task finds the run row already committed and registers the
\* Task Handle in the same step, before the task has taken a step of its own;
\* so a task that exists (and hence any status write it makes) has a run whose
\* record was committed, and the step in which a task ends and removes its
\* handle comes after the create handler has registered that handle.
C30_PersistStartRegister ==
    /\ [](\A r \in RunIds :
            task[r].pc # "none" =>
               /\ run_rows[r].present # "no"
               /\ creates[r].pc = "done" /\ creates[r].resp = "200")
    /\ [][\A r \in RunIds :
            /\ (task[r].pc = "none" /\ task'[r].pc # "none") =>
                  /\ run_rows[r].present # "no"
                  /\ creates[r].pc = "spawn"
                  /\ task'[r] = [NoTask EXCEPT !.pc = "s_running"]
                  /\ r \notin active_runs /\ r \in active_runs'
            /\ (task[r].pc \notin {"none", "done"} /\ task'[r].pc = "done") =>
                  /\ creates[r].pc = "done"
                  /\ r \notin active_runs'
            /\ (task'[r] # task[r] /\ run_rows'[r].status # run_rows[r].status) =>
                  run_rows[r].present = "yes"]_vars

\* A run whose task was started, wrote the final status to the committed row
\* and removed its handle, with no request ever made on it.
C30_Witness ==
    \E r \in RunIds :
       /\ creates[r].resp = "200" /\ TaskDone(r) /\ task[r].result = "ok"
       /\ run_rows[r].present = "yes" /\ run_rows[r].status = "completed"
       /\ r \notin active_runs /\ ~obs[r].touched

\* C31: join is read-only with respect to the run.  No step of a join
\* request, the running out of its bounded wait included, cancels the run's
\* task, removes its Task Handle or changes a persisted run or thread status;
\* and a run on which no cancel, interrupt or delete request was made never
\* ends cancelled.
C31_JoinReadOnly ==
    /\ [][\A q \in ReqIds :
            ((reqs[q].kind = "join" \/ reqs'[q].kind = "join") /\ reqs'[q] # reqs[q])
            => /\ task' = task
               /\ active_runs' = active_runs
               /\ run_rows' = run_rows
               /\ thread_status' = thread_status]_vars
    /\ [](\A r \in RunIds : ~obs[r].touched => run_rows[r].status # "cancelled")

\* C32: on every executor exit path the terminal status is persisted before
\* the broker is told that the run is over.  Whenever a run's broker carries
\* a cancellation or error signal or has been released, and no persistence
\* call of an except block has raised, the run's row, if it still exists,
\* does not have status pending, streaming or running.
C32_StatusBeforeSignal ==
    \A r \in RunIds :
       ((broker[r].terminal # "none" \/ broker[r].released)
          /\ obs[r].cut # "fault" /\ run_rows[r].present = "yes")
       => run_rows[r].status \notin {"pending", "streaming", "running"}

\* C33: an interruption is resumed at most once.  Two create requests that
\* carry a resume command for the same thread are never both past the resume
\* validation with neither having yet marked the thread busy: the second one
\* to arrive is rejected because the thread is no longer interrupted.
C33_ResumedAtMostOnce ==
    \A c1, c2 \in RunIds :
       (c1 # c2 /\ creates[c1].thread = creates[c2].thread
          /\ HasResume(creates[c1].command) /\ HasResume(creates[c2].command))
       => ~(creates[c1].pc = "mark" /\ creates[c2].pc = "mark")

\* C34: interrupt detection does not depend on the shape of the event.  Once
\* an event that was not dropped has carried the interrupt marker in its
\* payload, whether bare, in a (mode, payload) pair or in a (namespace, mode,
\* payload) tuple, the executor has recorded the interrupt, and the status it
\* persists when the events are exhausted is interrupted, not completed.
C34_InterruptAnyShape ==
    \A r \in RunIds :
       obs[r].marker_seen =>
          /\ task[r].pc \in {"s_store", "s_astream", "s_final_status"}
                => task[r].has_interrupt
          /\ (task[r].pc = "s_final_thread" /\ RowExists(r) /\ ~obs[r].touched)
                => run_rows[r].status = "interrupted"

====
